---- MODULE Spec2Model ----
(***************************************************************************)
(* The two notebooks of intro_to_pytorch: "Training Neural Networks" (the  *)
(* autograd cells, the one-step demonstration and the training loop) and   *)
(* "Saving and Loading Models" (state dict, checkpoint dictionary,         *)
(* load_checkpoint).                                                       *)
(*                                                                         *)
(* A tensor is a record [shape, val]: its torch.Size and one integer that  *)
(* stands for its content (a constant-filled tensor).  Parameter values    *)
(* are counted in thousandths, gradients and losses in units, so that the  *)
(* learning rates 0.01 and 0.003 are the integers 10 and 3.                *)
(***************************************************************************)
EXTENDS Integers, Sequences, FiniteSets, Bags, TLC

VARIABLES
    pc,            \* the statement the notebook executes next
    heap,          \* the module objects the notebook's names still reach, by id
    model,         \* the object bound to the name `model` (0: unbound)
    optimizer,     \* [obj, lr, kind]: the object whose parameters it was given
    batch,         \* the batch bound to images, labels
    remaining,     \* batches the loader's iterator has not yet yielded
    output,        \* result of the forward pass
    loss,          \* result of criterion(output, labels)
    e,             \* epoch counter of the loop over range(epochs)
    running_loss,  \* running_loss of the training loop
    printed,       \* the "Training loss" reports written so far
    log,           \* history: training-pass calls made since the batch was fetched
    lossLog,       \* history: every loss computed in the loop, with its epoch
    file,          \* content of 'checkpoint.pth'
    state_dict,    \* the notebook variable state_dict
    checkpoint,    \* the notebook variable checkpoint
    err,           \* the error raised by the last load_state_dict, if any
    trained,       \* history: state dict of the trained model
    before,        \* history: parameters of `model` before the last load_state_dict
    gradBefore,    \* history: gradients the optimizer cleared at the last zero_grad
    steps,         \* history: bag of the loop's optimizer updates, as [epoch, batch]
    x,             \* the tensor x of the autograd cells: [bound, data, grad]
    y,             \* y = x**2: [bound, data, grad_fn]
    z              \* z = y.mean(): [bound, num, den, grad_fn]

trainVars == <<batch, remaining, output, loss, e, running_loss, printed, log, lossLog>>
saveVars == <<file, state_dict, checkpoint, err, trained, before>>
autogradVars == <<x, y, z>>
vars == <<pc, heap, model, optimizer, batch, remaining, output, loss, e,
          running_loss, printed, log, lossLog, file, state_dict, checkpoint,
          err, trained, before, gradBefore, steps, x, y, z>>

----------------------------------------------------------------------------
(* Bounds *)

NumBatches == 2     \* len(trainloader)
MaxSeed == 1        \* distinct random initialisations of a new module

MaxWidth == 3       \* largest width of a generated hidden layer
MaxHidden == 2      \* longest generated hidden-layer width sequence
SmallIn == 3        \* an input size other than 784
SmallOut == 2       \* an output size other than 10
MaxX == 1           \* largest magnitude of an element of the random tensor x

Batches == 1..NumBatches
Seeds == 0..MaxSeed

----------------------------------------------------------------------------
(* Program constants *)

InputSize == 784
OutputSize == 10
LrDemo == 10        \* lr=0.01, in thousandths
LrLoop == 3         \* lr=0.003, in thousandths
Epochs == 5

----------------------------------------------------------------------------
(* Tensors, gradients, modules *)

Tensor(shape, val) == [shape |-> shape, val |-> val]

NoGrad == [none |-> TRUE, val |-> 0]

Grad(v) == [none |-> FALSE, val |-> v]

EmptyDict == [n \in {} |-> Tensor(<<>>, 0)]

\* nn.Linear(in_features, out_features) registered under `prefix`
Linear(prefix, in_features, out_features) ==
    [prefix |-> prefix, in_features |-> in_features, out_features |-> out_features]

\* the parameter names of a module, in registration order
ParamNames(layers) ==
    [k \in 1..(2 * Len(layers)) |->
        layers[(k + 1) \div 2].prefix \o (IF k % 2 = 1 THEN ".weight" ELSE ".bias")]

\* the shape of the k-th parameter: weight is [out, in], bias is [out]
ParamShape(layers, k) ==
    LET l == layers[(k + 1) \div 2]
    IN  IF k % 2 = 1 THEN <<l.out_features, l.in_features>> ELSE <<l.out_features>>

\* a constructor that gives every parameter a zero gradient tensor
NewModuleZeroGrads(cls, layers, nhidden, seed) ==
    LET names == ParamNames(layers)
        idx(n) == CHOOSE k \in DOMAIN names : names[k] = n
    IN  [cls |-> cls,
         layers |-> layers,
         nhidden |-> nhidden,
         names |-> names,
         params |-> [n \in {names[k] : k \in DOMAIN names} |->
                        Tensor(ParamShape(layers, idx(n)), seed + idx(n))],
         grad |-> [n \in {names[k] : k \in DOMAIN names} |-> Grad(0)]]

\* a freshly constructed module: random parameters, no gradients
NewModule(cls, layers, nhidden, seed) ==
    LET names == ParamNames(layers)
        idx(n) == CHOOSE k \in DOMAIN names : names[k] = n
    IN  [cls |-> cls,
         layers |-> layers,
         nhidden |-> nhidden,
         names |-> names,
         params |-> [n \in {names[k] : k \in DOMAIN names} |->
                        Tensor(ParamShape(layers, idx(n)), seed + idx(n))],
         grad |-> [n \in {names[k] : k \in DOMAIN names} |-> NoGrad]]

\* nn.Sequential(Linear(784,128), ReLU, Linear(128,64), ReLU, Linear(64,10), LogSoftmax)
Sequential(seed) ==
    NewModule("Sequential",
              <<Linear("0", InputSize, 128), Linear("2", 128, 64),
                Linear("4", 64, OutputSize)>>,
              0, seed)

EmptyGrads == [n \in {} |-> NoGrad]

\* what torch.save writes: a bare state dict, or the four-field checkpoint dictionary
NoFile == [kind |-> "none", input_size |-> 0, output_size |-> 0,
           hidden_layers |-> <<>>, state_dict |-> EmptyDict]

NoError == [raised |-> FALSE, key_error |-> FALSE, size_mismatch |-> {},
            missing |-> {}, unexpected |-> {}]

NoOptimizer == [obj |-> 0, lr |-> 0, kind |-> "none"]

\* the id of the next object: ids are given in order of creation
NewId(h) ==
    IF DOMAIN h = {} THEN 1
    ELSE (CHOOSE i \in DOMAIN h : \A j \in DOMAIN h : j <= i) + 1

\* h with a new object
Alloc(h, obj) ==
    [i \in DOMAIN h \cup {NewId(h)} |-> IF i \in DOMAIN h THEN h[i] ELSE obj]

\* the objects still referenced once the names are bound to m, opt, out and l:
\* an optimizer keeps its parameters, an output and a loss keep their graph
Live(h, m, opt, out, l) ==
    [i \in DOMAIN h \cap {m, opt.obj, out.obj, l.obj} |-> h[i]]
NoOutput == [obj |-> 0, batch |-> 0, at |-> EmptyDict]
NoLoss == [obj |-> 0, batch |-> 0, at |-> EmptyDict, item |-> 0]
\* a name of the autograd cells that is not bound yet
Unbound == [bound |-> FALSE]

----------------------------------------------------------------------------
(* Autograd and the optimizer *)

RECURSIVE SumTo(_, _)
SumTo(f, k) == IF k = 0 THEN 0 ELSE f[k] + SumTo(f, k - 1)

\* d loss / d parameter for a batch: fixed by the parameter values and the batch
GradOf(at, b) ==
    [n \in DOMAIN at |-> ((at[n].val + b + at[n].shape[1]) % 5) - 2]

\* the scalar loss of a batch at the given parameter values
LossOf(names, at, b) ==
    SumTo([k \in DOMAIN names |-> (at[names[k]].val + b) % 4], Len(names))

\* model(images): the output remembers the module and the values it was computed from
forward(h, m, b) == [obj |-> m, batch |-> b, at |-> h[m].params]

\* criterion(output, labels)
criterion(h, out) ==
    [obj |-> out.obj, batch |-> out.batch, at |-> out.at,
     item |-> LossOf(h[out.obj].names, out.at, out.batch)]

\* a zero_grad that leaves the gradients as they are
zero_grad_noop(h, opt) == h

\* optimizer.zero_grad(): zero every gradient that exists
zero_grad(h, opt) ==
    [h EXCEPT ![opt.obj].grad =
        [n \in DOMAIN @ |-> IF @[n].none THEN @[n] ELSE Grad(0)]]

\* a backward pass that overwrites the gradient a parameter holds
backward_overwrite(h, l) ==
    LET g == GradOf(l.at, l.batch)
    IN  [h EXCEPT ![l.obj].grad = [n \in DOMAIN @ |-> Grad(g[n])]]

\* loss.backward(): add the gradient of this loss to what each parameter holds
backward(h, l) ==
    LET g == GradOf(l.at, l.batch)
    IN  [h EXCEPT ![l.obj].grad =
            [n \in DOMAIN @ |-> IF @[n].none THEN Grad(g[n]) ELSE Grad(@[n].val + g[n])]]

\* an optimizer.step() that leaves a parameter alone unless its gradient exceeds 1
step_threshold(h, opt) ==
    [h EXCEPT ![opt.obj].params =
        [n \in DOMAIN @ |->
            IF h[opt.obj].grad[n].none \/ h[opt.obj].grad[n].val \in -1..1 THEN @[n]
            ELSE Tensor(@[n].shape, @[n].val - opt.lr * h[opt.obj].grad[n].val)]]

\* an optimizer.step() that moves along the gradient instead of against it
step_ascent(h, opt) ==
    [h EXCEPT ![opt.obj].params =
        [n \in DOMAIN @ |->
            IF h[opt.obj].grad[n].none THEN @[n]
            ELSE Tensor(@[n].shape, @[n].val + opt.lr * h[opt.obj].grad[n].val)]]

\* optimizer.step() of SGD: W' = W - lr * grad for every parameter that has a gradient
step(h, opt) ==
    [h EXCEPT ![opt.obj].params =
        [n \in DOMAIN @ |->
            IF h[opt.obj].grad[n].none THEN @[n]
            ELSE Tensor(@[n].shape, @[n].val - opt.lr * h[opt.obj].grad[n].val)]]

----------------------------------------------------------------------------
(* Notebook "Training Neural Networks" *)

\* the training pass as the five calls the contract lists
StepOrder == <<"zero_grad", "forward", "loss", "backward", "step">>

\* a training pass that calls optimizer.zero_grad() after loss.backward()
NextStmtZeroAfterBackward(p) ==
    CASE p = "demo_body" -> "demo_zero_grad"
      [] p = "demo_zero_grad" -> "demo_forward"
      [] p = "demo_forward" -> "demo_loss"
      [] p = "demo_loss" -> "demo_backward"
      [] p = "demo_backward" -> "demo_step"
      [] p = "demo_step" -> "loop_setup"
      [] p = "loop_body" -> "loop_forward"
      [] p = "loop_forward" -> "loop_loss"
      [] p = "loop_loss" -> "loop_backward"
      [] p = "loop_backward" -> "loop_zero_grad"
      [] p = "loop_zero_grad" -> "loop_step"
      [] p = "loop_step" -> "loop_accum"

\* the statement that follows statement p in the demonstration cells and in the loop body
NextStmt(p) ==
    CASE p = "demo_body" -> "demo_zero_grad"
      [] p = "demo_zero_grad" -> "demo_forward"
      [] p = "demo_forward" -> "demo_loss"
      [] p = "demo_loss" -> "demo_backward"
      [] p = "demo_backward" -> "demo_step"
      [] p = "demo_step" -> "loop_setup"
      [] p = "loop_body" -> "loop_zero_grad"
      [] p = "loop_zero_grad" -> "loop_forward"
      [] p = "loop_forward" -> "loop_loss"
      [] p = "loop_loss" -> "loop_backward"
      [] p = "loop_backward" -> "loop_step"
      [] p = "loop_step" -> "loop_accum"

InitTrain ==
    /\ pc = "build"
    /\ heap = <<>>
    /\ model = 0
    /\ optimizer = NoOptimizer
    /\ batch = 0
    /\ remaining = {}
    /\ output = NoOutput
    /\ loss = NoLoss
    /\ e = 0
    /\ running_loss = 0
    /\ printed = <<>>
    /\ log = <<>>
    /\ lossLog = <<>>
    /\ file = NoFile
    /\ state_dict = EmptyDict
    /\ checkpoint = NoFile
    /\ err = NoError
    /\ trained = EmptyDict
    /\ before = EmptyDict
    /\ gradBefore = EmptyGrads
    /\ steps = EmptyBag
    /\ x = Unbound
    /\ y = Unbound
    /\ z = Unbound

\* cell 10: build the network, take a batch, forward pass and loss
BuildModel ==
    /\ pc = "build"
    /\ \E seed \in Seeds, b \in Batches :
        LET h == Alloc(heap, Sequential(seed))
            m == NewId(heap)
        IN  /\ heap' = h
            /\ model' = m
            /\ batch' = b
            /\ output' = forward(h, m, b)
            /\ loss' = criterion(h, forward(h, m, b))
    /\ pc' = "first_backward"
    /\ UNCHANGED <<optimizer, remaining, e, running_loss, printed, log, lossLog>>
    /\ UNCHANGED <<saveVars, gradBefore, steps, autogradVars>>

\* cell 11: loss.backward() between the two prints
FirstBackward ==
    /\ pc = "first_backward"
    /\ heap' = backward(heap, loss)
    /\ pc' = "make_optimizer"
    /\ UNCHANGED <<model, optimizer>>
    /\ UNCHANGED trainVars
    /\ UNCHANGED <<saveVars, gradBefore, steps, autogradVars>>

\* cell 12: optimizer = optim.SGD(model.parameters(), lr=0.01)
MakeOptimizer ==
    /\ pc = "make_optimizer"
    /\ optimizer' = [obj |-> model, lr |-> LrDemo, kind |-> "SGD"]
    /\ pc' = "demo_fetch"
    /\ UNCHANGED <<heap, model>>
    /\ UNCHANGED trainVars
    /\ UNCHANGED <<saveVars, gradBefore, steps, autogradVars>>

\* cell 13: images, labels = next(iter(trainloader)); images.resize_(64, 784)
DemoFetch ==
    /\ pc = "demo_fetch"
    /\ \E b \in Batches : batch' = b
    /\ log' = <<>>
    /\ pc' = NextStmt("demo_body")
    /\ UNCHANGED <<heap, model, optimizer, remaining, output, loss, e,
                   running_loss, printed, lossLog>>
    /\ UNCHANGED <<saveVars, gradBefore, steps, autogradVars>>

\* optimizer.zero_grad()
ZeroGrad ==
    /\ pc \in {"demo_zero_grad", "loop_zero_grad"}
    /\ heap' = zero_grad(heap, optimizer)
    /\ gradBefore' = heap[optimizer.obj].grad
    /\ UNCHANGED <<steps, autogradVars>>
    /\ log' = Append(log, "zero_grad")
    /\ pc' = NextStmt(pc)
    /\ UNCHANGED <<model, optimizer, batch, remaining, output, loss, e,
                   running_loss, printed, lossLog>>
    /\ UNCHANGED saveVars

\* output = model(images) / output = model.forward(images)
Forward ==
    /\ pc \in {"demo_forward", "loop_forward"}
    /\ output' = forward(heap, model, batch)
    /\ heap' = Live(heap, model, optimizer, forward(heap, model, batch), loss)
    /\ log' = Append(log, "forward")
    /\ pc' = NextStmt(pc)
    /\ UNCHANGED <<model, optimizer, batch, remaining, loss, e,
                   running_loss, printed, lossLog>>
    /\ UNCHANGED <<saveVars, gradBefore, steps, autogradVars>>

\* loss = criterion(output, labels)
Criterion ==
    /\ pc \in {"demo_loss", "loop_loss"}
    /\ loss' = criterion(heap, output)
    /\ log' = Append(log, "loss")
    /\ lossLog' = IF pc = "loop_loss"
                  THEN Append(lossLog, [epoch |-> e, item |-> criterion(heap, output).item])
                  ELSE lossLog
    /\ heap' = Live(heap, model, optimizer, output, criterion(heap, output))
    /\ pc' = NextStmt(pc)
    /\ UNCHANGED <<model, optimizer, batch, remaining, output, e,
                   running_loss, printed>>
    /\ UNCHANGED <<saveVars, gradBefore, steps, autogradVars>>

\* loss.backward()
Backward ==
    /\ pc \in {"demo_backward", "loop_backward"}
    /\ heap' = backward(heap, loss)
    /\ log' = Append(log, "backward")
    /\ pc' = NextStmt(pc)
    /\ UNCHANGED <<model, optimizer, batch, remaining, output, loss, e,
                   running_loss, printed, lossLog>>
    /\ UNCHANGED <<saveVars, gradBefore, steps, autogradVars>>

\* optimizer.step()
OptimizerStep ==
    /\ pc \in {"demo_step", "loop_step"}
    /\ heap' = step(heap, optimizer)
    /\ log' = Append(log, "step")
    /\ steps' = IF pc = "loop_step"
                THEN steps (+) SetToBag({[epoch |-> e, batch |-> batch]})
                ELSE steps
    /\ pc' = NextStmt(pc)
    /\ UNCHANGED <<model, optimizer, batch, remaining, output, loss, e,
                   running_loss, printed, lossLog>>
    /\ UNCHANGED <<saveVars, gradBefore, autogradVars>>

\* a cell 15 that builds the new model and goes on with the optimizer of cell 12
LoopSetupKeepsOptimizer ==
    /\ pc = "loop_setup"
    /\ \E seed \in Seeds :
        /\ heap' = Live(Alloc(heap, Sequential(seed)), NewId(heap), optimizer, output, loss)
        /\ model' = NewId(heap)
    /\ e' = 0
    /\ pc' = "epoch_start"
    /\ UNCHANGED <<optimizer, batch, remaining, output, loss, running_loss, printed, log, lossLog>>
    /\ UNCHANGED <<saveVars, gradBefore, steps, autogradVars>>

\* cell 15, before the loop: new model, new optimizer with lr=0.003, epochs = 5
LoopSetup ==
    /\ pc = "loop_setup"
    /\ \E seed \in Seeds :
        LET opt == [obj |-> NewId(heap), lr |-> LrLoop, kind |-> "SGD"]
        IN  /\ heap' = Live(Alloc(heap, Sequential(seed)), NewId(heap), opt, output, loss)
            /\ model' = NewId(heap)
            /\ optimizer' = opt
    /\ e' = 0
    /\ pc' = "epoch_start"
    /\ UNCHANGED <<batch, remaining, output, loss, running_loss, printed, log, lossLog>>
    /\ UNCHANGED <<saveVars, gradBefore, steps, autogradVars>>

\* the loop with running_loss = 0 missing from the epoch body
EpochStartNoReset ==
    /\ pc = "epoch_start"
    /\ IF e < Epochs
       THEN /\ remaining' = Batches
            /\ pc' = "loop_fetch"
       ELSE /\ pc' = "predict"
            /\ UNCHANGED remaining
    /\ UNCHANGED <<heap, model, optimizer, batch, output, loss, e, running_loss,
                   printed, log, lossLog>>
    /\ UNCHANGED <<saveVars, gradBefore, steps, autogradVars>>

\* a loop over range(epochs + 1)
EpochStartOneMore ==
    /\ pc = "epoch_start"
    /\ IF e <= Epochs
       THEN /\ running_loss' = 0
            /\ remaining' = Batches
            /\ pc' = "loop_fetch"
       ELSE /\ pc' = "predict"
            /\ UNCHANGED <<running_loss, remaining>>
    /\ UNCHANGED <<heap, model, optimizer, batch, output, loss, e, printed, log, lossLog>>
    /\ UNCHANGED <<saveVars, gradBefore, steps, autogradVars>>

\* for e in range(epochs): running_loss = 0, then a new iterator over trainloader
EpochStart ==
    /\ pc = "epoch_start"
    /\ IF e < Epochs
       THEN /\ running_loss' = 0
            /\ remaining' = Batches
            /\ pc' = "loop_fetch"
       ELSE /\ pc' = "predict"
            /\ UNCHANGED <<running_loss, remaining>>
    /\ UNCHANGED <<heap, model, optimizer, batch, output, loss, e, printed, log, lossLog>>
    /\ UNCHANGED <<saveVars, gradBefore, steps, autogradVars>>

\* an iteration over the loader that ends before the last batch is yielded
FetchBatchDropLast ==
    /\ pc = "loop_fetch"
    /\ IF Cardinality(remaining) > 1
       THEN /\ \E b \in remaining :
                /\ batch' = b
                /\ remaining' = remaining \ {b}
            /\ log' = <<>>
            /\ pc' = NextStmt("loop_body")
       ELSE /\ pc' = "loop_report"
            /\ UNCHANGED <<batch, remaining, log>>
    /\ UNCHANGED <<heap, model, optimizer, output, loss, e, running_loss, printed, lossLog>>
    /\ UNCHANGED <<saveVars, gradBefore, steps, autogradVars>>

\* for images, labels in trainloader (shuffle=True): the next batch, or the else branch
FetchBatch ==
    /\ pc = "loop_fetch"
    /\ IF remaining # {}
       THEN /\ \E b \in remaining :
                /\ batch' = b
                /\ remaining' = remaining \ {b}
            /\ log' = <<>>
            /\ pc' = NextStmt("loop_body")
       ELSE /\ pc' = "loop_report"
            /\ UNCHANGED <<batch, remaining, log>>
    /\ UNCHANGED <<heap, model, optimizer, output, loss, e, running_loss, printed, lossLog>>
    /\ UNCHANGED <<saveVars, gradBefore, steps, autogradVars>>

\* a loop whose print statement is in the body of the batch loop
AccumulateLossThenReport ==
    /\ pc = "loop_accum"
    /\ running_loss' = running_loss + loss.item
    /\ pc' = "loop_report"
    /\ UNCHANGED <<heap, model, optimizer, batch, remaining, output, loss, e,
                   printed, log, lossLog>>
    /\ UNCHANGED <<saveVars, gradBefore, steps, autogradVars>>

\* running_loss += loss.item()
AccumulateLoss ==
    /\ pc = "loop_accum"
    /\ running_loss' = running_loss + loss.item
    /\ pc' = "loop_fetch"
    /\ UNCHANGED <<heap, model, optimizer, batch, remaining, output, loss, e,
                   printed, log, lossLog>>
    /\ UNCHANGED <<saveVars, gradBefore, steps, autogradVars>>

\* else: print(f"Training loss: {running_loss/len(trainloader)}")
Report ==
    /\ pc = "loop_report"
    /\ printed' = Append(printed, [num |-> running_loss, den |-> NumBatches])
    /\ e' = e + 1
    /\ pc' = "epoch_start"
    /\ UNCHANGED <<heap, model, optimizer, batch, remaining, output, loss,
                   running_loss, log, lossLog>>
    /\ UNCHANGED <<saveVars, gradBefore, steps, autogradVars>>

\* a prediction cell that also propagates the last loss backward
PredictThenBackward ==
    /\ pc = "predict"
    /\ \E b \in Batches :
        /\ batch' = b
        /\ output' = forward(heap, model, b)
        /\ heap' = backward(Live(heap, model, optimizer, forward(heap, model, b), loss),
                            loss)
    /\ pc' = "done"
    /\ UNCHANGED <<model, optimizer, remaining, loss, e, running_loss,
                   printed, log, lossLog>>
    /\ UNCHANGED <<saveVars, gradBefore, steps, autogradVars>>

\* cell 16: with torch.no_grad(): logps = model(img)
Predict ==
    /\ pc = "predict"
    /\ \E b \in Batches :
        /\ batch' = b
        /\ output' = forward(heap, model, b)
        /\ heap' = Live(heap, model, optimizer, forward(heap, model, b), loss)
    /\ pc' = "done"
    /\ UNCHANGED <<model, optimizer, remaining, loss, e, running_loss,
                   printed, log, lossLog>>
    /\ UNCHANGED <<saveVars, gradBefore, steps, autogradVars>>

Init == InitTrain

Next ==
    \/ BuildModel
    \/ FirstBackward
    \/ MakeOptimizer
    \/ DemoFetch
    \/ ZeroGrad
    \/ Forward
    \/ Criterion
    \/ Backward
    \/ OptimizerStep
    \/ LoopSetup
    \/ EpochStart
    \/ FetchBatch
    \/ AccumulateLoss
    \/ Report
    \/ Predict

Spec == Init /\ [][Next]_vars

\* the cells run to their end: the interpreter executes the next statement whenever
\* there is one
SpecFair == Spec /\ WF_vars(Next)

----------------------------------------------------------------------------
(* Claims about the training notebook *)

LoopBody == {"loop_zero_grad", "loop_forward", "loop_loss", "loop_backward",
             "loop_step", "loop_accum"}

\* the calls of StepOrder that precede statement p of the loop body
DoneBefore(p) ==
    CASE p = "loop_zero_grad" -> 0
      [] p = "loop_forward" -> 1
      [] p = "loop_loss" -> 2
      [] p = "loop_backward" -> 3
      [] p = "loop_step" -> 4
      [] p = "loop_accum" -> 5

\* C1: for every batch of every epoch the loop calls zero_grad, forward, loss,
\* backward, step exactly once each and in this order, and the next batch is
\* fetched (or the epoch reported) only after the optimizer update.
C1_StepOrder ==
    /\ pc \in LoopBody => log = SubSeq(StepOrder, 1, DoneBefore(pc))
    /\ (pc = "loop_fetch" /\ remaining # Batches) => log = StepOrder
    /\ pc = "loop_report" => log = StepOrder

C1_Witness ==
    /\ pc = "loop_fetch"
    /\ e = Epochs - 1
    /\ remaining = {}
    /\ log = StepOrder

\* C2: when optimizer.step() is about to run, in the demonstration and in the
\* loop, every parameter of the optimizer holds exactly the gradient of the
\* current batch's loss at the current parameter values.
C2_GradientOfCurrentBatchOnly ==
    pc \in {"demo_step", "loop_step"} =>
        \A n \in DOMAIN heap[optimizer.obj].grad :
            heap[optimizer.obj].grad[n] = Grad(GradOf(heap[model].params, batch)[n])

C2_Witness ==
    /\ pc = "demo_step"
    /\ optimizer.obj = model
    /\ \E n \in DOMAIN heap[model].grad : heap[model].grad[n].val # 0

\* the items of the losses logged for epoch k, as a sequence
EpochItems(k) ==
    LET idx == {i \in DOMAIN lossLog : lossLog[i].epoch = k}
    IN  [i \in DOMAIN lossLog |-> IF i \in idx THEN lossLog[i].item ELSE 0]

EpochCount(k) == Cardinality({i \in DOMAIN lossLog : lossLog[i].epoch = k})

\* C4: the loss reported for an epoch is the sum of the losses of the batches
\* of that epoch alone, one per batch of the loader, over the number of batches.
C4_ReportedLoss ==
    \A k \in DOMAIN printed :
        /\ printed[k].num = SumTo(EpochItems(k - 1), Len(lossLog))
        /\ printed[k].den = NumBatches
        /\ EpochCount(k - 1) = NumBatches

C4_Witness ==
    /\ Len(printed) = Epochs
    /\ printed[1].num > 0
    /\ printed[2].num > 0
    /\ printed[1].num # printed[2].num

----------------------------------------------------------------------------
(* Notebook "Saving and Loading Models" *)

LrAdam == 1         \* lr=0.001, in thousandths
TrainEpochs == 2

\* fc_model.Network(input_size, output_size, hidden_layers): the ModuleList
\* hidden_layers of Linear layers chained from input_size, then the Linear `output`
Network(input_size, output_size, hidden_layers, seed) ==
    LET m == Len(hidden_layers)
        hid == [i \in 1..m |->
                   Linear("hidden_layers." \o ToString(i - 1),
                          IF i = 1 THEN input_size ELSE hidden_layers[i - 1],
                          hidden_layers[i])]
    IN  NewModule("Network", Append(hid, Linear("output", hidden_layers[m], output_size)),
                  m, seed)

\* the update of optim.Adam at lr=0.001: one step of size lr against the gradient's sign
adam_step(h, opt) ==
    [h EXCEPT ![opt.obj].params =
        [n \in DOMAIN @ |->
            LET g == h[opt.obj].grad[n]
            IN  IF g.none \/ g.val = 0 THEN @[n]
                ELSE Tensor(@[n].shape, @[n].val - opt.lr * (IF g.val > 0 THEN 1 ELSE -1))]]

\* one training pass of fc_model.train on batch b
train_pass(h, m, opt, b) ==
    LET h1 == zero_grad(h, opt)
        h2 == backward(h1, criterion(h1, forward(h1, m, b)))
    IN  adam_step(h2, opt)

\* model.state_dict()
StateDict(m) == m.params

\* a save that writes the weights of the module and leaves out its biases
StateDictFileWeightsOnly(m) ==
    [kind |-> "state_dict", input_size |-> 0, output_size |-> 0,
     hidden_layers |-> <<>>,
     state_dict |-> [n \in {m.names[k] : k \in {j \in DOMAIN m.names : j % 2 = 1}} |->
                        StateDict(m)[n]]]

\* torch.save(model.state_dict(), 'checkpoint.pth')
StateDictFile(m) ==
    [kind |-> "state_dict", input_size |-> 0, output_size |-> 0,
     hidden_layers |-> <<>>, state_dict |-> StateDict(m)]

\* a checkpoint dictionary whose hidden widths are those of the trained network
CheckpointOfLiteralWidths(m) ==
    [kind |-> "checkpoint",
     input_size |-> 784,
     output_size |-> 10,
     hidden_layers |-> <<512, 256, 128>>,
     state_dict |-> StateDict(m)]

\* checkpoint = {'input_size': 784, 'output_size': 10,
\*               'hidden_layers': [each.out_features for each in model.hidden_layers],
\*               'state_dict': model.state_dict()}
CheckpointOf(m) ==
    [kind |-> "checkpoint",
     input_size |-> 784,
     output_size |-> 10,
     hidden_layers |-> [i \in 1..m.nhidden |-> m.layers[i].out_features],
     state_dict |-> StateDict(m)]

ParamSet(m) == DOMAIN m.params

\* a load_state_dict that reports only the first parameter whose size differs
load_state_dict_first_only(m, sd) ==
    LET missing == ParamSet(m) \ DOMAIN sd
        unexpected == DOMAIN sd \ ParamSet(m)
        mismatch == {n \in ParamSet(m) \cap DOMAIN sd : sd[n].shape # m.params[n].shape}
        first == {n \in mismatch :
                    \A k \in DOMAIN m.names :
                        m.names[k] \in mismatch =>
                            (CHOOSE j \in DOMAIN m.names : m.names[j] = n) <= k}
    IN  [module |-> [m EXCEPT !.params =
                        [n \in DOMAIN @ |->
                            IF n \in DOMAIN sd /\ n \notin mismatch THEN sd[n] ELSE @[n]]],
         err |-> [raised |-> missing # {} \/ unexpected # {} \/ mismatch # {},
                  key_error |-> FALSE,
                  size_mismatch |-> first,
                  missing |-> missing,
                  unexpected |-> unexpected]]

\* a load_state_dict that fits a tensor of another size into the parameter
load_state_dict_resize(m, sd) ==
    LET missing == ParamSet(m) \ DOMAIN sd
        unexpected == DOMAIN sd \ ParamSet(m)
    IN  [module |-> [m EXCEPT !.params =
                        [n \in DOMAIN @ |->
                            IF n \in DOMAIN sd THEN Tensor(@[n].shape, sd[n].val) ELSE @[n]]],
         err |-> [raised |-> missing # {} \/ unexpected # {},
                  key_error |-> FALSE,
                  size_mismatch |-> {},
                  missing |-> missing,
                  unexpected |-> unexpected]]

\* a load_state_dict called with strict=False: missing and unexpected keys are not errors
load_state_dict_not_strict(m, sd) ==
    LET missing == ParamSet(m) \ DOMAIN sd
        unexpected == DOMAIN sd \ ParamSet(m)
        mismatch == {n \in ParamSet(m) \cap DOMAIN sd : sd[n].shape # m.params[n].shape}
    IN  [module |-> [m EXCEPT !.params =
                        [n \in DOMAIN @ |->
                            IF n \in DOMAIN sd /\ n \notin mismatch THEN sd[n] ELSE @[n]]],
         err |-> [raised |-> mismatch # {},
                  key_error |-> FALSE,
                  size_mismatch |-> mismatch,
                  missing |-> missing,
                  unexpected |-> unexpected]]

\* model.load_state_dict(state_dict), strict: every parameter whose saved tensor has
\* the parameter's shape is copied; then an error is raised if a key is missing or
\* unexpected or a size differs, naming every such key
load_state_dict(m, sd) ==
    LET missing == ParamSet(m) \ DOMAIN sd
        unexpected == DOMAIN sd \ ParamSet(m)
        mismatch == {n \in ParamSet(m) \cap DOMAIN sd : sd[n].shape # m.params[n].shape}
    IN  [module |-> [m EXCEPT !.params =
                        [n \in DOMAIN @ |->
                            IF n \in DOMAIN sd /\ n \notin mismatch THEN sd[n] ELSE @[n]]],
         err |-> [raised |-> missing # {} \/ unexpected # {} \/ mismatch # {},
                  key_error |-> FALSE,
                  size_mismatch |-> mismatch,
                  missing |-> missing,
                  unexpected |-> unexpected]]

\* a load_checkpoint that hands the hidden widths to Network in reverse order
load_checkpoint_reversed(f, seed) ==
    IF f.kind # "checkpoint"
    THEN [module |-> Network(1, 1, <<1>>, 0),
          err |-> [NoError EXCEPT !.raised = TRUE, !.key_error = TRUE]]
    ELSE load_state_dict(Network(f.input_size, f.output_size,
                                 [i \in 1..Len(f.hidden_layers) |->
                                     f.hidden_layers[Len(f.hidden_layers) + 1 - i]],
                                 seed),
                         f.state_dict)

\* def load_checkpoint(filepath): a bare state dict has none of the four keys
load_checkpoint(f, seed) ==
    IF f.kind # "checkpoint"
    THEN [module |-> Network(1, 1, <<1>>, 0),
          err |-> [NoError EXCEPT !.raised = TRUE, !.key_error = TRUE]]
    ELSE load_state_dict(Network(f.input_size, f.output_size, f.hidden_layers, seed),
                         f.state_dict)

InitSave ==
    /\ pc = "s_create"
    /\ heap = <<>>
    /\ model = 0
    /\ optimizer = NoOptimizer
    /\ batch = 0
    /\ remaining = {}
    /\ output = NoOutput
    /\ loss = NoLoss
    /\ e = 0
    /\ running_loss = 0
    /\ printed = <<>>
    /\ log = <<>>
    /\ lossLog = <<>>
    /\ file = NoFile
    /\ state_dict = EmptyDict
    /\ checkpoint = NoFile
    /\ err = NoError
    /\ trained = EmptyDict
    /\ before = EmptyDict
    /\ gradBefore = EmptyGrads
    /\ steps = EmptyBag
    /\ x = Unbound
    /\ y = Unbound
    /\ z = Unbound

\* cell 4: model = fc_model.Network(784, 10, [512, 256, 128]); optimizer = optim.Adam(...)
CreateNetwork ==
    /\ pc = "s_create"
    /\ \E seed \in Seeds :
        heap' = Alloc(heap, Network(784, 10, <<512, 256, 128>>, seed))
    /\ model' = NewId(heap)
    /\ optimizer' = [obj |-> NewId(heap), lr |-> LrAdam, kind |-> "Adam"]
    /\ e' = 0
    /\ pc' = "s_train_epoch"
    /\ UNCHANGED <<batch, remaining, output, loss, running_loss, printed, log, lossLog>>
    /\ UNCHANGED <<saveVars, gradBefore, steps, autogradVars>>

\* cell 5, fc_model.train(..., epochs=2): the loop over the epochs
TrainEpoch ==
    /\ pc = "s_train_epoch"
    /\ IF e < TrainEpochs
       THEN /\ remaining' = Batches
            /\ pc' = "s_train_pass"
            /\ UNCHANGED trained
       ELSE /\ trained' = StateDict(heap[model])
            /\ pc' = "s_save_state_dict"
            /\ UNCHANGED remaining
    /\ UNCHANGED <<heap, model, optimizer, batch, output, loss, e, running_loss,
                   printed, log, lossLog>>
    /\ UNCHANGED <<file, state_dict, checkpoint, err, before, gradBefore, steps, autogradVars>>

\* cell 5, fc_model.train: one training pass per batch of the loader
TrainPass ==
    /\ pc = "s_train_pass"
    /\ IF remaining # {}
       THEN /\ \E b \in remaining :
                /\ batch' = b
                /\ remaining' = remaining \ {b}
                /\ heap' = train_pass(heap, model, optimizer, b)
            /\ UNCHANGED <<e, pc>>
       ELSE /\ e' = e + 1
            /\ pc' = "s_train_epoch"
            /\ UNCHANGED <<heap, batch, remaining>>
    /\ UNCHANGED <<model, optimizer, output, loss, running_loss, printed, log, lossLog>>
    /\ UNCHANGED <<saveVars, gradBefore, steps, autogradVars>>

\* cell 7: torch.save(model.state_dict(), 'checkpoint.pth')
SaveStateDict ==
    /\ pc = "s_save_state_dict"
    /\ file' = StateDictFile(heap[model])
    /\ pc' = "s_torch_load"
    /\ UNCHANGED <<heap, model, optimizer>>
    /\ UNCHANGED trainVars
    /\ UNCHANGED <<state_dict, checkpoint, err, trained, before, gradBefore, steps, autogradVars>>

\* cell 8: state_dict = torch.load('checkpoint.pth')
TorchLoad ==
    /\ pc = "s_torch_load"
    /\ state_dict' = file.state_dict
    /\ pc' = "s_load_same"
    /\ UNCHANGED <<heap, model, optimizer>>
    /\ UNCHANGED trainVars
    /\ UNCHANGED <<file, checkpoint, err, trained, before, gradBefore, steps, autogradVars>>

\* cells 9 and 10: model.load_state_dict(state_dict); the notebook goes on to the
\* next cell whether or not the call raised
LoadStateDict ==
    /\ pc \in {"s_load_same", "s_load_other", "rt_load_other"}
    /\ LET r == load_state_dict(heap[model], state_dict)
       IN  /\ heap' = [heap EXCEPT ![model] = r.module]
           /\ err' = r.err
    /\ before' = heap[model].params
    /\ pc' = CASE pc = "s_load_same" -> "s_rebind"
               [] pc = "s_load_other" -> "s_build_checkpoint"
               [] pc = "rt_load_other" -> "rt_done"
    /\ UNCHANGED <<model, optimizer>>
    /\ UNCHANGED trainVars
    /\ UNCHANGED <<file, state_dict, checkpoint, trained, gradBefore, steps, autogradVars>>

\* cell 10: model = fc_model.Network(784, 10, [400, 200, 100])
Rebind ==
    /\ pc = "s_rebind"
    /\ \E seed \in Seeds :
        heap' = Live(Alloc(heap, Network(784, 10, <<400, 200, 100>>, seed)),
                     NewId(heap), optimizer, output, loss)
    /\ model' = NewId(heap)
    /\ pc' = "s_load_other"
    /\ UNCHANGED optimizer
    /\ UNCHANGED trainVars
    /\ UNCHANGED <<saveVars, gradBefore, steps, autogradVars>>

\* a notebook in which cell 13 is run after the dictionary is built but before it is saved
BuildCheckpointWithoutSave ==
    /\ pc = "s_build_checkpoint"
    /\ checkpoint' = CheckpointOf(heap[model])
    /\ pc' = "s_load_checkpoint"
    /\ UNCHANGED <<heap, model, optimizer>>
    /\ UNCHANGED trainVars
    /\ UNCHANGED <<file, state_dict, err, trained, before, gradBefore, steps, autogradVars>>

\* cell 11: checkpoint = {...}
BuildCheckpoint ==
    /\ pc = "s_build_checkpoint"
    /\ checkpoint' = CheckpointOf(heap[model])
    /\ pc' = "s_save_checkpoint"
    /\ UNCHANGED <<heap, model, optimizer>>
    /\ UNCHANGED trainVars
    /\ UNCHANGED <<file, state_dict, err, trained, before, gradBefore, steps, autogradVars>>

\* a save that leaves a file that already exists as it is
SaveCheckpointKeepsFile ==
    /\ pc = "s_save_checkpoint"
    /\ file' = IF file.kind = "none" THEN checkpoint ELSE file
    /\ pc' = "s_load_checkpoint"
    /\ UNCHANGED <<heap, model, optimizer>>
    /\ UNCHANGED trainVars
    /\ UNCHANGED <<state_dict, checkpoint, err, trained, before, gradBefore, steps, autogradVars>>

\* cell 11: torch.save(checkpoint, 'checkpoint.pth')
SaveCheckpoint ==
    /\ pc = "s_save_checkpoint"
    /\ file' = checkpoint
    /\ pc' = "s_load_checkpoint"
    /\ UNCHANGED <<heap, model, optimizer>>
    /\ UNCHANGED trainVars
    /\ UNCHANGED <<state_dict, checkpoint, err, trained, before, gradBefore, steps, autogradVars>>

\* cell 13: model = load_checkpoint('checkpoint.pth'); `model` is bound only if
\* load_checkpoint returns
LoadCheckpoint ==
    /\ pc = "s_load_checkpoint"
    /\ \E seed \in Seeds :
        LET r == load_checkpoint(file, seed)
        IN  /\ err' = r.err
            /\ IF r.err.raised
               THEN UNCHANGED <<heap, model>>
               ELSE /\ heap' = Live(Alloc(heap, r.module), NewId(heap), optimizer,
                                     output, loss)
                    /\ model' = NewId(heap)
    /\ pc' = "s_done"
    /\ UNCHANGED optimizer
    /\ UNCHANGED trainVars
    /\ UNCHANGED <<file, state_dict, checkpoint, trained, before, gradBefore, steps, autogradVars>>

NextSave ==
    \/ CreateNetwork
    \/ TrainEpoch
    \/ TrainPass
    \/ SaveStateDict
    \/ TorchLoad
    \/ LoadStateDict
    \/ Rebind
    \/ BuildCheckpoint
    \/ SaveCheckpoint
    \/ LoadCheckpoint

SpecSave == InitSave /\ [][NextSave]_vars

----------------------------------------------------------------------------
(* The save and load code applied to any architecture and any file *)

RECURSIVE SeqsUpTo(_, _)
SeqsUpTo(S, k) ==
    IF k = 0 THEN {}
    ELSE {<<w>> : w \in S} \cup {Append(q, w) : q \in SeqsUpTo(S, k - 1), w \in S}

WidthSeqs ==
    SeqsUpTo(2..MaxWidth, MaxHidden)
        \cup {<<128, 64>>, <<100, 50>>, <<512, 256, 128>>, <<400, 200, 100>>}

Archs ==
    [input_size : {InputSize, SmallIn}, output_size : {OutputSize, SmallOut},
     hidden_layers : WidthSeqs]

NetworkOf(a, seed) == Network(a.input_size, a.output_size, a.hidden_layers, seed)

\* a checkpoint file as a caller may supply it: any declared architecture around
\* the state dict of module m
SuppliedFile(a, m) ==
    [kind |-> "checkpoint", input_size |-> a.input_size, output_size |-> a.output_size,
     hidden_layers |-> a.hidden_layers, state_dict |-> StateDict(m)]

InitRT ==
    /\ \E a \in Archs, seed \in Seeds :
        LET m == NetworkOf(a, seed)
        IN  /\ heap = <<m>>
            /\ trained = StateDict(m)
            /\ \/ /\ pc = "s_build_checkpoint"
                  /\ file = NoFile
                  /\ state_dict = EmptyDict
               \/ /\ pc = "rt_rebind"
                  /\ file = StateDictFile(m)
                  /\ state_dict = StateDict(m)
               \/ /\ pc = "s_load_checkpoint"
                  /\ \E d \in Archs : file = SuppliedFile(d, m)
                  /\ state_dict = EmptyDict
    /\ model = 1
    /\ optimizer = NoOptimizer
    /\ batch = 0
    /\ remaining = {}
    /\ output = NoOutput
    /\ loss = NoLoss
    /\ e = 0
    /\ running_loss = 0
    /\ printed = <<>>
    /\ log = <<>>
    /\ lossLog = <<>>
    /\ checkpoint = NoFile
    /\ err = NoError
    /\ before = EmptyDict
    /\ gradBefore = EmptyGrads
    /\ steps = EmptyBag
    /\ x = Unbound
    /\ y = Unbound
    /\ z = Unbound

\* cell 10 with any architecture: model = fc_model.Network(...)
RebindTo ==
    /\ pc = "rt_rebind"
    /\ \E a \in Archs, seed \in Seeds :
        heap' = Live(Alloc(heap, NetworkOf(a, seed)), NewId(heap), optimizer, output, loss)
    /\ model' = NewId(heap)
    /\ pc' = "rt_load_other"
    /\ UNCHANGED optimizer
    /\ UNCHANGED trainVars
    /\ UNCHANGED <<saveVars, gradBefore, steps, autogradVars>>

NextRT ==
    \/ BuildCheckpoint
    \/ SaveCheckpoint
    \/ LoadCheckpoint
    \/ RebindTo
    \/ LoadStateDict

SpecRT == InitRT /\ [][NextRT]_vars

----------------------------------------------------------------------------
(* Claims about saving and loading *)

HiddenName(i, kind) == "hidden_layers." \o ToString(i - 1) \o kind

\* the hidden-layer widths a parameter mapping was saved with: the bias sizes
WidthsOf(sd) ==
    [i \in 1..((Cardinality(DOMAIN sd) - 2) \div 2) |-> sd[HiddenName(i, ".bias")].shape[1]]

\* the mapping sd holds the parameters of Network(input_size, output_size, hidden_layers)
IsArch(sd, input_size, output_size, hidden_layers) ==
    /\ sd["hidden_layers.0.weight"].shape[2] = input_size
    /\ sd["output.bias"].shape[1] = output_size
    /\ WidthsOf(sd) = hidden_layers

\* the tensor shapes that the declared fields of checkpoint c stand for
DeclaredShapes(c) ==
    LET h == c.hidden_layers
        m == Len(h)
        hw == {HiddenName(i, ".weight") : i \in 1..m}
        hb == {HiddenName(i, ".bias") : i \in 1..m}
    IN  [n \in hw \cup hb \cup {"output.weight", "output.bias"} |->
            CASE n = "output.weight" -> <<c.output_size, h[m]>>
              [] n = "output.bias" -> <<c.output_size>>
              [] n \in hw ->
                    LET i == CHOOSE i \in 1..m : n = HiddenName(i, ".weight")
                    IN  <<h[i], IF i = 1 THEN c.input_size ELSE h[i - 1]>>
              [] n \in hb ->
                    LET i == CHOOSE i \in 1..m : n = HiddenName(i, ".bias")
                    IN  <<h[i]>>]

CheckpointInvariant(c) ==
    /\ DOMAIN c.state_dict = DOMAIN DeclaredShapes(c)
    /\ \A n \in DOMAIN c.state_dict : c.state_dict[n].shape = DeclaredShapes(c)[n]

\* C5 (as claimed): saving a checkpoint of any model and calling load_checkpoint on
\* the file returns a model whose every named parameter equals the original's.
C5_RoundTrip ==
    (pc = "s_done" /\ checkpoint.kind = "checkpoint") =>
        /\ ~err.raised
        /\ model = 2
        /\ DOMAIN heap[model].params = DOMAIN trained
        /\ \A n \in DOMAIN trained : heap[model].params[n] = trained[n]

\* C6: loading saved parameters into a model built with a different hidden-layer
\* width sequence raises an error, and no parameter of that model receives
\* anything but a whole saved tensor of its own shape.
C6_ShapeMismatchFails ==
    (pc = "rt_done" /\ WidthsOf(state_dict) # WidthsOf(before)) =>
        /\ err.raised
        /\ \A n \in DOMAIN heap[model].params :
            /\ heap[model].params[n].shape = before[n].shape
            /\ \/ heap[model].params[n] = before[n]
               \/ n \in DOMAIN state_dict /\ heap[model].params[n] = state_dict[n]

C6_Witness ==
    /\ pc = "rt_done"
    /\ Len(WidthsOf(state_dict)) = Len(WidthsOf(before))
    /\ WidthsOf(state_dict) # WidthsOf(before)
    /\ err.raised
    /\ heap[model].params["output.bias"] # before["output.bias"]

\* C7: for saved widths [128, 64] loaded into [100, 50] and saved widths
\* [512, 256, 128] loaded into [400, 200, 100], the names in the size-mismatch
\* error are exactly the names whose saved shape differs from the new model's.
C7_ErrorNamesEveryMismatch ==
    LET differing == {n \in DOMAIN state_dict \cap DOMAIN before :
                        state_dict[n].shape # before[n].shape}
        case1 == /\ IsArch(state_dict, 784, 10, <<128, 64>>)
                 /\ IsArch(before, 784, 10, <<100, 50>>)
        case2 == /\ IsArch(state_dict, 784, 10, <<512, 256, 128>>)
                 /\ IsArch(before, 784, 10, <<400, 200, 100>>)
    IN  pc = "rt_done" =>
            /\ (case1 \/ case2) => (err.raised /\ err.size_mismatch = differing)
            /\ case1 => err.size_mismatch =
                            {"hidden_layers.0.weight", "hidden_layers.0.bias",
                             "hidden_layers.1.weight", "hidden_layers.1.bias",
                             "output.weight"}
            /\ case2 => err.size_mismatch =
                            {"hidden_layers.0.weight", "hidden_layers.0.bias",
                             "hidden_layers.1.weight", "hidden_layers.1.bias",
                             "hidden_layers.2.weight", "hidden_layers.2.bias",
                             "output.weight"}

C7_Witness ==
    /\ pc = "rt_done"
    /\ IsArch(state_dict, 784, 10, <<128, 64>>)
    /\ IsArch(before, 784, 10, <<100, 50>>)
    /\ Cardinality(err.size_mismatch) = 5

\* C8: load_checkpoint fails when a parameter name of the model it constructs is
\* missing from the saved mapping or a saved shape disagrees with the model's
\* shape at that name, and returns a model only when every name is present with
\* a matching shape.
C8_ReconstructionFails ==
    LET fresh == DeclaredShapes(file)
        bad == \E n \in DOMAIN fresh :
                  \/ n \notin DOMAIN file.state_dict
                  \/ file.state_dict[n].shape # fresh[n]
    IN  pc = "s_done" =>
            /\ bad => (err.raised /\ model = 1)
            /\ ~err.raised =>
                /\ ~bad
                /\ model = 2
                /\ \A n \in DOMAIN fresh : heap[model].params[n] = file.state_dict[n]

C8_Witness ==
    /\ pc = "s_done"
    /\ err.raised
    /\ err.missing # {}
    /\ err.size_mismatch = {}
    /\ err.unexpected = {}

C10_CheckpointHoldsTrained ==
    /\ file.kind = "checkpoint" => file.state_dict = trained
    /\ pc = "s_done" => StateDict(heap[model]) = trained

----------------------------------------------------------------------------
(* Two consecutive training steps on the same batch: module 1 with           *)
(* optimizer.zero_grad() in each step, then module 2, built with the same    *)
(* parameters, with the zero_grad() line left out.                           *)

InitAccum ==
    /\ \E seed \in Seeds, lr \in {LrDemo, LrLoop}, b \in Batches :
        /\ heap = <<Sequential(seed), Sequential(seed)>>
        /\ optimizer = [obj |-> 1, lr |-> lr, kind |-> "SGD"]
        /\ batch = b
    /\ pc = "acc_zero_grad"
    /\ model = 1
    /\ remaining = {}
    /\ output = NoOutput
    /\ loss = NoLoss
    /\ e = 1
    /\ running_loss = 0
    /\ printed = <<>>
    /\ log = <<>>
    /\ lossLog = <<>>
    /\ file = NoFile
    /\ state_dict = EmptyDict
    /\ checkpoint = NoFile
    /\ err = NoError
    /\ trained = EmptyDict
    /\ before = EmptyDict
    /\ gradBefore = EmptyGrads
    /\ steps = EmptyBag
    /\ x = Unbound
    /\ y = Unbound
    /\ z = Unbound

\* optimizer.zero_grad(), in the steps of module 1 only
AccZeroGrad ==
    /\ pc = "acc_zero_grad"
    /\ heap' = zero_grad(heap, optimizer)
    /\ gradBefore' = heap[optimizer.obj].grad
    /\ UNCHANGED <<steps, autogradVars>>
    /\ pc' = "acc_forward"
    /\ UNCHANGED <<model, optimizer>>
    /\ UNCHANGED trainVars
    /\ UNCHANGED saveVars

\* output = model(images)
AccForward ==
    /\ pc = "acc_forward"
    /\ output' = forward(heap, model, batch)
    /\ pc' = "acc_loss"
    /\ UNCHANGED <<heap, model, optimizer, batch, remaining, loss, e, running_loss,
                   printed, log, lossLog>>
    /\ UNCHANGED <<saveVars, gradBefore, steps, autogradVars>>

\* loss = criterion(output, labels)
AccCriterion ==
    /\ pc = "acc_loss"
    /\ loss' = criterion(heap, output)
    /\ pc' = "acc_backward"
    /\ UNCHANGED <<heap, model, optimizer, batch, remaining, output, e, running_loss,
                   printed, log, lossLog>>
    /\ UNCHANGED <<saveVars, gradBefore, steps, autogradVars>>

\* loss.backward(); the experiment ends with the backward pass of the second step
AccBackward ==
    /\ pc = "acc_backward"
    /\ heap' = backward(heap, loss)
    /\ pc' = IF e = 1 THEN "acc_step"
             ELSE IF model = 1 THEN "acc_switch" ELSE "acc_done"
    /\ UNCHANGED <<model, optimizer>>
    /\ UNCHANGED trainVars
    /\ UNCHANGED <<saveVars, gradBefore, steps, autogradVars>>

\* optimizer.step() of the first step; the second step follows
AccStep ==
    /\ pc = "acc_step"
    /\ heap' = step(heap, optimizer)
    /\ e' = 2
    /\ pc' = IF model = 1 THEN "acc_zero_grad" ELSE "acc_forward"
    /\ UNCHANGED <<model, optimizer, batch, remaining, output, loss, running_loss,
                   printed, log, lossLog>>
    /\ UNCHANGED <<saveVars, gradBefore, steps, autogradVars>>

\* the same two steps again on module 2, without zero_grad()
AccSwitch ==
    /\ pc = "acc_switch"
    /\ model' = 2
    /\ optimizer' = [optimizer EXCEPT !.obj = 2]
    /\ e' = 1
    /\ pc' = "acc_forward"
    /\ UNCHANGED <<heap, batch, remaining, output, loss, running_loss, printed,
                   log, lossLog>>
    /\ UNCHANGED <<saveVars, gradBefore, steps, autogradVars>>

NextAccum ==
    \/ AccZeroGrad
    \/ AccForward
    \/ AccCriterion
    \/ AccBackward
    \/ AccStep
    \/ AccSwitch

SpecAccum == InitAccum /\ [][NextAccum]_vars

\* C3: after the second backward pass the module stepped with zero_grad() holds
\* the gradient of the second pass alone, the module stepped without it holds
\* the sum of the gradients of both passes, and the two differ wherever the
\* gradient of the first pass is not zero.
C3_GradientAccumulation ==
    pc = "acc_done" =>
        \A n \in DOMAIN heap[1].grad :
            /\ heap[1].grad[n] = Grad(GradOf(heap[1].params, batch)[n])
            /\ ~heap[2].grad[n].none
            /\ heap[2].grad[n].val = gradBefore[n].val + heap[1].grad[n].val
            /\ gradBefore[n].val # 0 => heap[2].grad[n] # heap[1].grad[n]

C3_Witness ==
    /\ pc = "acc_done"
    /\ \E n \in DOMAIN heap[1].grad :
        /\ gradBefore[n].val # 0
        /\ heap[1].grad[n].val # 0
        /\ heap[2].grad[n] # heap[1].grad[n]

----------------------------------------------------------------------------
(* Claims about the file, the update rule and the epochs *)

AfterFirstSave == {"s_torch_load", "s_load_same", "s_rebind", "s_load_other",
                   "s_build_checkpoint", "s_save_checkpoint"}

\* C11: a save replaces the whole file: after the bare state dict and then the
\* checkpoint dictionary were saved to 'checkpoint.pth', the file is exactly the
\* checkpoint dictionary, with its four fields; between the two saves it is exactly
\* the bare state dict
C11_SaveReplacesFile ==
    /\ pc \in AfterFirstSave =>
        /\ file.kind = "state_dict"
        /\ file.state_dict = trained
    /\ pc \in {"s_load_checkpoint", "s_done"} =>
        /\ file = checkpoint
        /\ file.kind = "checkpoint"
        /\ file.input_size = 784 /\ file.output_size = 10
        /\ Len(file.hidden_layers) >= 1

\* both saves were made, and the second one wrote other parameters than the first
C11_Witness ==
    /\ pc = "s_done"
    /\ trained # EmptyDict
    /\ file.kind = "checkpoint"
    /\ file.state_dict # trained

\* C12: a training step with a non-zero learning rate changes every parameter whose
\* gradient is not zero: the value after optimizer.step() differs from the value
\* before it
C12_StepChangesParameters ==
    [][(pc \in {"demo_step", "loop_step"} /\ optimizer.lr # 0) =>
        \A n \in DOMAIN heap[optimizer.obj].params :
            (~heap[optimizer.obj].grad[n].none /\ heap[optimizer.obj].grad[n].val # 0) =>
                heap'[optimizer.obj].params[n] # heap[optimizer.obj].params[n]]_vars

\* the demonstration step has run with a gradient that is not zero
C12_Witness ==
    /\ pc = "loop_setup"
    /\ optimizer.lr # 0
    /\ \E n \in DOMAIN heap[optimizer.obj].grad : heap[optimizer.obj].grad[n].val # 0

\* C13: the model that load_checkpoint returns has the shape the file declares: as
\* many hidden layers as the width sequence is long, the first taking input_size
\* inputs, the i-th mapping the (i-1)-th width to the i-th, and the output layer
\* mapping the last width to output_size
C13_ReconstructedShape ==
    (pc = "s_done" /\ ~err.raised) =>
        LET m == heap[model]
            h == file.hidden_layers
        IN  /\ m.nhidden = Len(h)
            /\ Len(m.layers) = Len(h) + 1
            /\ \A i \in 1..Len(h) :
                /\ m.layers[i].out_features = h[i]
                /\ m.layers[i].in_features = IF i = 1 THEN file.input_size ELSE h[i - 1]
            /\ m.layers[Len(h) + 1].in_features = h[Len(h)]
            /\ m.layers[Len(h) + 1].out_features = file.output_size
            /\ [n \in DOMAIN m.params |-> m.params[n].shape] = DeclaredShapes(file)

\* load_checkpoint returned a model with two hidden layers of different widths and
\* an input size other than 784
C13_Witness ==
    /\ pc = "s_done"
    /\ ~err.raised
    /\ file.input_size = SmallIn
    /\ Len(file.hidden_layers) = 2
    /\ file.hidden_layers[1] # file.hidden_layers[2]
    /\ heap[model].layers[2].in_features = file.hidden_layers[1]

\* the optimizer updates made for batch b in epoch k
EpochSteps(k, b) == CopiesIn([epoch |-> k, batch |-> b], steps)

\* the optimizer updates made in epoch k
EpochUpdates(k) == SumTo([b \in Batches |-> EpochSteps(k, b)], NumBatches)

\* C14: an epoch is one complete pass: in every epoch each batch of the loader gets
\* exactly one training step, so an epoch makes as many optimizer updates as the
\* loader has batches; inside an epoch no batch is stepped twice and the batches
\* still to come have not been stepped
C14_EpochIsCompletePass ==
    /\ \A r \in BagToSet(steps) : r.epoch \in 0..(Epochs - 1) /\ r.batch \in Batches
    /\ \A k \in 0..(Epochs - 1) :
        /\ \A b \in Batches : EpochSteps(k, b) <= 1
        /\ (k < e \/ (k = e /\ pc = "loop_report")) =>
            /\ \A b \in Batches : EpochSteps(k, b) = 1
            /\ EpochUpdates(k) = NumBatches
    /\ pc \in LoopBody \cup {"loop_fetch"} =>
        \A b \in remaining : EpochSteps(e, b) = 0

\* the second epoch has stepped every batch and is about to report
C14_Witness ==
    /\ pc = "loop_report"
    /\ e = 1
    /\ \A b \in Batches : EpochSteps(1, b) = 1

\* C15: with epochs = 5 the training loop terminates, and it has then run exactly 5
\* epochs, made 5 * len(trainloader) optimizer updates and printed exactly 5 reports
C15_LoopTerminates ==
    <>[](/\ pc = "done"
         /\ e = Epochs
         /\ Len(printed) = Epochs
         /\ BagCardinality(steps) = Epochs * NumBatches
         /\ Len(lossLog) = Epochs * NumBatches)

\* the notebook has run to its end with five reports printed
C15_Witness ==
    /\ pc = "done"
    /\ e = 5
    /\ Len(printed) = 5
    /\ BagCardinality(steps) = 5 * NumBatches

\* C16: the loss is reported exactly once per epoch: while epoch e runs, exactly the
\* e earlier epochs have been reported (so a report precedes the first zero_grad of
\* the next epoch), the report is made when the iterator is exhausted and the last
\* batch's optimizer update is done, and after the loop every epoch has its report
C16_ReportOncePerEpoch ==
    /\ pc \in LoopBody \cup {"epoch_start", "loop_fetch", "loop_report"} =>
        Len(printed) = e
    /\ pc = "loop_report" =>
        /\ remaining = {}
        /\ log = StepOrder
        /\ EpochUpdates(e) = NumBatches
    /\ pc \in LoopBody \cup {"loop_fetch"} =>
        \A k \in 0..(Epochs - 1) : EpochUpdates(k) > 0 => k <= Len(printed)
    /\ pc \in {"predict", "done"} => Len(printed) = Epochs

\* the second epoch is about to call zero_grad for its first batch, and the first
\* epoch's report is the only one printed
C16_Witness ==
    /\ pc = "loop_zero_grad"
    /\ e = 1
    /\ EpochUpdates(1) = 0
    /\ EpochUpdates(0) = NumBatches
    /\ Len(printed) = 1

\* C17: saving a model's state dict, reading it back and loading it into the same,
\* unchanged model succeeds with no missing and no unexpected keys, and every
\* parameter is what it was before the load
C17_LoadOwnStateDict ==
    pc = "s_rebind" =>
        /\ ~err.raised
        /\ err.missing = {}
        /\ err.unexpected = {}
        /\ err.size_mismatch = {}
        /\ heap[model].params = before
        /\ heap[model].params = trained

\* the trained model has loaded the state dict read back from the file
C17_Witness ==
    /\ pc = "s_rebind"
    /\ file.kind = "state_dict"
    /\ state_dict = file.state_dict
    /\ before = state_dict
    /\ DOMAIN state_dict = DOMAIN heap[model].params
    /\ \E n \in DOMAIN before : before[n] # Network(784, 10, <<512, 256, 128>>, 0).params[n]

----------------------------------------------------------------------------
(* The autograd cells, up to the first backward pass through the network *)

\* the element positions of a 2x2 tensor
Idx == (1..2) \X (1..2)

\* a quotient of two integers, as autograd and the division x/2 produce them
Rat(num, den) == [num |-> num, den |-> den]

RatEq(a, b) == a.num * b.den = b.num * a.den

\* the sum of the elements of a 2x2 tensor
Sum2x2(d) == d[<<1, 1>>] + d[<<1, 2>>] + d[<<2, 1>>] + d[<<2, 2>>]

\* y = x**2, with grad_fn PowBackward0
pow2(xt) ==
    [bound |-> TRUE, data |-> [i \in Idx |-> xt.data[i] * xt.data[i]],
     grad_fn |-> "PowBackward0"]

\* z = y.mean(), with grad_fn MeanBackward0: the sum over the number of elements
mean(yt) ==
    [bound |-> TRUE, num |-> Sum2x2(yt.data), den |-> Cardinality(DOMAIN yt.data),
     grad_fn |-> "MeanBackward0"]

\* a backward pass through a sum instead of a mean
z_backward_of_sum(xt, zt) ==
    [xt EXCEPT !.grad =
        [none |-> FALSE,
         val |-> [i \in Idx |->
                    IF xt.grad.none THEN Rat(2 * xt.data[i], 1)
                    ELSE Rat(@.val[i].num + 2 * xt.data[i], 1)]]]

\* z.backward(): MeanBackward0 hands 1/n to every element of y, PowBackward0
\* multiplies it by 2*x, and the product is accumulated into x.grad
z_backward(xt, zt) ==
    [xt EXCEPT !.grad =
        [none |-> FALSE,
         val |-> [i \in Idx |->
                    IF xt.grad.none THEN Rat(2 * xt.data[i], zt.den)
                    ELSE Rat(@.val[i].num + 2 * xt.data[i], zt.den)]]]

\* print(x/2)
half(xt) == [i \in Idx |-> Rat(xt.data[i], 2)]

InitAutograd ==
    /\ pc = "ag_randn"
    /\ heap = <<>>
    /\ model = 0
    /\ optimizer = NoOptimizer
    /\ batch = 0
    /\ remaining = {}
    /\ output = NoOutput
    /\ loss = NoLoss
    /\ e = 0
    /\ running_loss = 0
    /\ printed = <<>>
    /\ log = <<>>
    /\ lossLog = <<>>
    /\ file = NoFile
    /\ state_dict = EmptyDict
    /\ checkpoint = NoFile
    /\ err = NoError
    /\ trained = EmptyDict
    /\ before = EmptyDict
    /\ gradBefore = EmptyGrads
    /\ steps = EmptyBag
    /\ x = Unbound
    /\ y = Unbound
    /\ z = Unbound

\* cell 4: x = torch.randn(2,2, requires_grad=True)
Randn ==
    /\ pc = "ag_randn"
    /\ \E d \in [Idx -> (-MaxX)..MaxX] :
        x' = [bound |-> TRUE, data |-> d,
              grad |-> [none |-> TRUE, val |-> [i \in Idx |-> Rat(0, 1)]]]
    /\ pc' = "ag_pow"
    /\ UNCHANGED <<heap, model, optimizer, y, z>>
    /\ UNCHANGED trainVars
    /\ UNCHANGED <<saveVars, gradBefore, steps>>

\* cell 5: y = x**2
Pow ==
    /\ pc = "ag_pow"
    /\ y' = pow2(x)
    /\ pc' = "ag_mean"
    /\ UNCHANGED <<heap, model, optimizer, x, z>>
    /\ UNCHANGED trainVars
    /\ UNCHANGED <<saveVars, gradBefore, steps>>

\* cell 7: z = y.mean(); cell 8 prints x.grad
Mean ==
    /\ pc = "ag_mean"
    /\ z' = mean(y)
    /\ pc' = "ag_backward"
    /\ UNCHANGED <<heap, model, optimizer, x, y>>
    /\ UNCHANGED trainVars
    /\ UNCHANGED <<saveVars, gradBefore, steps>>

\* cell 9: z.backward(); the notebook goes on to build the network
ZBackward ==
    /\ pc = "ag_backward"
    /\ x' = z_backward(x, z)
    /\ pc' = "build"
    /\ UNCHANGED <<heap, model, optimizer, y, z>>
    /\ UNCHANGED trainVars
    /\ UNCHANGED <<saveVars, gradBefore, steps>>

NextAutograd ==
    \/ Randn
    \/ Pow
    \/ Mean
    \/ ZBackward
    \/ BuildModel
    \/ FirstBackward

SpecAutograd == InitAutograd /\ [][NextAutograd]_vars

----------------------------------------------------------------------------
(* Claims about autograd *)

C19_GradientIsHalfX ==
    pc \in {"build", "first_backward", "make_optimizer"} =>
        /\ ~x.grad.none
        /\ DOMAIN x.grad.val = Idx
        /\ \A i \in Idx : RatEq(x.grad.val[i], half(x)[i])

\* z.backward() has run on an x with elements of both signs
C19_Witness ==
    /\ pc = "build"
    /\ y.grad_fn = "PowBackward0"
    /\ z.grad_fn = "MeanBackward0"
    /\ x.data[<<1, 1>>] < 0
    /\ x.data[<<2, 2>>] > 0
    /\ x.grad.val[<<2, 2>>].num # 0

----------------------------------------------------------------------------
(* Claims about the update rule *)

\* the learning rate the notebook configures for the optimizer that runs statement p
ConfiguredLr(p) == IF p = "demo_step" THEN LrDemo ELSE LrLoop

\* what one call of optimizer.step() does to the parameters it was given
AppliesUpdateRule ==
    LET o == optimizer.obj
    IN  /\ optimizer.lr = ConfiguredLr(pc)
        /\ DOMAIN heap'[o].params = DOMAIN heap[o].params
        /\ \A n \in DOMAIN heap[o].params :
            /\ heap'[o].params[n].shape = heap[o].params[n].shape
            /\ heap'[o].params[n].val =
                   heap[o].params[n].val - ConfiguredLr(pc) * heap[o].grad[n].val
            /\ heap[o].grad[n].val = 0 => heap'[o].params[n] = heap[o].params[n]

\* C20: one SGD update applies W' = W - alpha * gradient to every parameter the
\* optimizer was given, with the gradient held when step() is called and the
\* configured alpha (0.01 in the demonstration, 0.003 in the loop); a parameter
\* whose gradient is zero keeps its value, and no shape changes
C20_SGDUpdateRule ==
    [][(pc \in {"demo_step", "loop_step"}) => AppliesUpdateRule]_vars

\* an update of the loop has run at lr = 0.003 with one gradient zero and another not
C20_Witness ==
    /\ pc = "loop_accum"
    /\ optimizer.lr = LrLoop
    /\ \E n \in DOMAIN heap[optimizer.obj].grad : heap[optimizer.obj].grad[n].val = 0
    /\ \E n \in DOMAIN heap[optimizer.obj].grad : heap[optimizer.obj].grad[n].val # 0

----------------------------------------------------------------------------
(* Either notebook, from its first modelled cell to its last *)

InitNotebooks == Init \/ InitSave

NextNotebooks == Next \/ NextSave

SpecNotebooks == InitNotebooks /\ [][NextNotebooks]_vars

----------------------------------------------------------------------------
(* Claims about what the optimizer updates and what each statement changes *)

\* the statements from which a training pass is still to come
Training == LoopBody \cup {"demo_fetch", "demo_zero_grad", "demo_forward", "demo_loss",
                           "demo_backward", "demo_step", "epoch_start", "loop_fetch",
                           "s_train_epoch", "s_train_pass"}

\* C21: at every optimizer.step() of both notebooks the optimizer holds the
\* parameters of the object bound to `model`, and the loss was computed by a forward
\* pass through that object at its current parameters; wherever training is still to
\* come the optimizer is the one created over the current model, so no step updates
\* a model that `model` no longer names
C21_OptimizerOverCurrentModel ==
    /\ pc \in Training =>
        /\ model \in DOMAIN heap
        /\ optimizer.obj = model
    /\ pc \in {"demo_step", "loop_step"} =>
        /\ output.obj = model
        /\ loss.obj = model
        /\ loss.batch = batch
        /\ loss.at = heap[model].params
    /\ pc \in {"s_train_epoch", "s_train_pass"} => optimizer.kind = "Adam"
    /\ pc \in LoopBody \cup {"epoch_start", "loop_fetch"} => optimizer.lr = LrLoop

\* the loop is about to step the second model, which the second optimizer was
\* created over
C21_Witness ==
    /\ pc = "loop_step"
    /\ optimizer.obj = model
    /\ optimizer.lr = LrLoop
    /\ loss.obj = model
    /\ DOMAIN heap = {model}
    /\ model > 1

\* the statements that may write parameter values: optimizer.step(), the training
\* passes of fc_model.train, and load_state_dict
WritesParams == {"demo_step", "loop_step", "s_train_pass", "s_load_same", "s_load_other"}

\* the statements that may write gradients: zero_grad(), backward(), and the
\* training passes of fc_model.train
WritesGrads == {"first_backward", "demo_zero_grad", "loop_zero_grad", "demo_backward",
                "loop_backward", "s_train_pass"}

\* one statement changes an object's parameters or gradients only if it is one of
\* the statements that write them
FrameOfStatement ==
    \A i \in DOMAIN heap \cap DOMAIN heap' :
        /\ heap'[i].params # heap[i].params => pc \in WritesParams
        /\ heap'[i].grad # heap[i].grad => pc \in WritesGrads
        /\ pc \in {"demo_forward", "loop_forward", "demo_loss", "loop_loss", "loop_accum",
                   "loop_report", "predict"} =>
            /\ heap'[i].params = heap[i].params
            /\ heap'[i].grad = heap[i].grad

\* C22: parameter values change only at optimizer.step() and at a load of saved
\* parameters, gradients only at zero_grad() and backward(); the forward pass, the
\* loss, running_loss += loss.item(), the report and the prediction under
\* torch.no_grad() leave every parameter and every gradient as they were
C22_WritesOnlyAtStepAndBackward ==
    [][FrameOfStatement]_vars

\* the prediction has been made on the trained model: its gradients are those of the
\* last backward pass and its parameters those the prediction read
C22_Witness ==
    /\ pc = "done"
    /\ output.obj = model
    /\ output.at = heap[model].params
    /\ \A n \in DOMAIN heap[model].grad : ~heap[model].grad[n].none
    /\ \E n \in DOMAIN heap[model].grad :
        heap[model].grad[n].val = GradOf(loss.at, loss.batch)[n] /\ heap[model].grad[n].val # 0

----------------------------------------------------------------------------
(* Claims about the call of load_checkpoint *)

\* C23: load_checkpoint is called on 'checkpoint.pth' only when the last write to the
\* file is the four-field checkpoint record: when the call is next the file is the
\* checkpoint dictionary and not the bare state dict saved earlier, and the call has
\* never failed on a missing key
C23_LoadCheckpointAfterCheckpointSave ==
    /\ pc = "s_load_checkpoint" =>
        /\ file.kind = "checkpoint"
        /\ file = checkpoint
        /\ file # StateDictFile(heap[model])
    /\ pc = "s_done" =>
        /\ file.kind = "checkpoint"
        /\ ~err.key_error

\* load_checkpoint has returned a model built from the file that held the bare state
\* dict before
C23_Witness ==
    /\ pc = "s_done"
    /\ trained # EmptyDict
    /\ ~err.raised
    /\ heap[model].params = file.state_dict
    /\ heap[model].nhidden = Len(file.hidden_layers)

====
